---- MODULE Spec2Model ----
(***************************************************************************)
(* Model of homework.py: a single-threaded polling loop that queries the   *)
(* homework-review API, validates the answer, notifies a Telegram chat     *)
(* when the 'homeworks' list changed and reports errors, deduplicated by   *)
(* their text.                                                             *)
(*                                                                         *)
(* Python values are represented as follows.                               *)
(*   None / a value v      : <<>> / <<v>>   (None, Some(v))                *)
(*   a homework dict       : a function from the keys it has to strings    *)
(*   the API's JSON answer : a record telling whether it is a dict, which  *)
(*                           of 'homeworks' / 'current_date' it has, and   *)
(*                           whether the value under 'homeworks' is a list *)
(*   an exception          : [class, text], text being str(error)          *)
(* The Russian message texts of the source are transliterated to ASCII.    *)
(***************************************************************************)
EXTENDS Integers, Sequences, FiniteSets, TLC

VARIABLES
    env,            \* the environment variables that are set (lines 25-27)
    pc,             \* position of main(): start, poll, waiting, sleep, exited, failed
    fatal,          \* class of the exception that left main(), or None
    timestamp,      \* main's local timestamp (None after a response without current_date)
    last_homework,  \* main's local last_homework
    last_error,     \* main's local last_error
    request,        \* from_date of the GET in flight, or None
    outstanding,    \* number of GET requests issued and not yet answered
    cur,            \* what the pass of the loop that has just ended did (while it sleeps)
    prev,           \* summary of the pass before cur (while cur sleeps)
    last            \* summary of the most recently completed pass

vars == <<env, pc, fatal, timestamp, last_homework, last_error, request, outstanding,
          cur, prev, last>>

----------------------------------------------------------------------------
(* Bounds of the model *)

\* longest 'homeworks' list the API returns
MaxHomeworks == 2
\* number of distinct 'current_date' values the API echoes back
NumDates == 2

----------------------------------------------------------------------------
(* Constants of the program *)

RETRY_PERIOD == 600
HTTP_OK == 200
\* a status code other than 200
HTTP_ERROR == 500
\* int(time.time()) when main() starts
StartTime == 1200

None == <<>>
Some(v) == <<v>>

TokenNames == {"PRACTICUM_TOKEN", "TELEGRAM_TOKEN", "TELEGRAM_CHAT_ID"}

\* 'Rabota proverena: revyueru vsyo ponravilos. Ura!' etc.
HOMEWORK_VERDICTS ==
    [approved  |-> "Rabota proverena: revyueru vsyo ponravilos. Ura!",
     reviewing |-> "Rabota vzyata na proverku revyuerom.",
     rejected  |-> "Rabota proverena: u revyuera est zamechaniya."]

\* repr() of a str without quotes in it, as f'{KeyError(key)}' renders the key
Repr(s) == "'" \o s \o "'"

\* str(KeyError(message)) is repr(message); the messages hold ' and so get "
ReprQuoted(s) == "\"" \o s \o "\""

Ok(v) == [ok |-> TRUE, value |-> v]
Raise(class, text) == [ok |-> FALSE, exc |-> [class |-> class, text |-> text]]

----------------------------------------------------------------------------
(* Inputs: what the API and the chat transport may do *)

Absent == "<absent>"
\* the tracked submission (older records of the list carry another name)
Names == {"hw1"}
\* two catalog statuses and one the catalog does not know
Statuses == {"approved", "rejected", "resubmitted"}
DatesUpdated == {"d1", "d2"}

\* the dict with the keys whose value is given
Homework(name, status, date_updated) ==
    LET val(k) == CASE k = "homework_name" -> name
                    [] k = "status" -> status
                    [] k = "date_updated" -> date_updated
    IN [k \in {j \in {"homework_name", "status", "date_updated"} : val(j) # Absent}
           |-> val(k)]

Homeworks ==
    {Homework(n, s, d) : n \in Names \cup {Absent}, s \in Statuses \cup {Absent},
                         d \in DatesUpdated}

\* an older record that follows the most recent one in the list
OlderHomework == Homework("hw0", "approved", "d0")

RECURSIVE Older(_)
Older(n) == IF n = 0 THEN <<>> ELSE Append(Older(n - 1), OlderHomework)

HomeworkLists ==
    {<<>>} \cup {<<h>> \o Older(n) : h \in Homeworks, n \in 0..(MaxHomeworks - 1)}

CurrentDates == {StartTime + k * RETRY_PERIOD : k \in 1..NumDates}

DictDoc(has_hw, is_list, hws, has_cd, cd) ==
    [is_dict |-> TRUE, has_homeworks |-> has_hw, homeworks_is_list |-> is_list,
     homeworks |-> hws, has_current_date |-> has_cd, current_date |-> cd]

NotADict == [DictDoc(FALSE, FALSE, <<>>, FALSE, 0) EXCEPT !.is_dict = FALSE]

Docs ==
    {NotADict, DictDoc(FALSE, FALSE, <<>>, FALSE, 0), DictDoc(TRUE, FALSE, <<>>, FALSE, 0)}
    \cup {DictDoc(TRUE, TRUE, l, FALSE, 0) : l \in HomeworkLists}
    \cup {DictDoc(TRUE, TRUE, l, TRUE, cd) : l \in HomeworkLists, cd \in CurrentDates}

\* what requests.get does: raise, or return a response
NetRaises(e) == [raises |-> e, status_code |-> 0, is_json |-> FALSE, body |-> NotADict]
NetResponse(code, is_json, body) ==
    [raises |-> "", status_code |-> code, is_json |-> is_json, body |-> body]

NetOutcomes ==
    {NetRaises(e) : e \in {"ConnectionError", "Timeout", "RequestException"}}
    \cup {NetResponse(HTTP_ERROR, FALSE, NotADict), NetResponse(HTTP_OK, FALSE, NotADict)}
    \cup {NetResponse(HTTP_OK, TRUE, d) : d \in Docs}

\* what bot.send_message does
TransportOutcomes == {"ok", "TelegramError"}

----------------------------------------------------------------------------
(* The functions of homework.py *)

\* mutant: any() instead of all()
check_tokens_any(e) == TokenNames \cap e # {}

\* lines 40-47
check_tokens(e) == TokenNames \subseteq e

\* mutant: TelegramError is not caught
send_message_propagates(message, transport) ==
    IF transport = "TelegramError"
    THEN [raised |-> TRUE, delivered |-> FALSE]
    ELSE [raised |-> FALSE, delivered |-> TRUE]

\* lines 50-59: the message is handed to bot.send_message; TelegramError is
\* caught and logged
send_message(message, transport) ==
    IF transport = "TelegramError"
    THEN [raised |-> FALSE, delivered |-> FALSE]
    ELSE [raised |-> FALSE, delivered |-> TRUE]

\* 'raise logger.error(...)' raises None
RaiseNoneText == "exceptions must derive from BaseException"
\* 'except json.JSONDecodeError():' calls the constructor without arguments
DecodeHandlerText ==
    "JSONDecodeError.__init__() missing 3 required positional arguments: 'msg', 'doc', and 'pos'"
\* None - RETRY_PERIOD
NoneMinusText == "unsupported operand type(s) for -: 'NoneType' and 'int'"

get_api_answer(net) ==
    IF net.raises # ""
    THEN Raise("TypeError", RaiseNoneText)
    ELSE IF net.status_code # HTTP_OK
    THEN Raise("ServerError", "")
    ELSE IF ~net.is_json
    THEN Raise("TypeError", DecodeHandlerText)
    ELSE Ok(net.body)

\* mutant: an empty list is an error
check_response_rejects_empty(response) ==
    IF response.is_dict /\ response.has_homeworks /\ response.homeworks_is_list
       /\ response.homeworks # <<>>
    THEN Ok(response.homeworks)
    ELSE Raise("TypeError", "Otvet ne soderzhit spisok domashnikh rabot")

\* mutant: only the most recent homework is returned
check_response_first_only(response) ==
    IF response.is_dict
    THEN IF ~response.has_homeworks
         THEN Raise("KeyNotFound", "V otvete ne obnaruzhen klyuch " \o Repr("homeworks"))
         ELSE IF ~response.homeworks_is_list
         THEN Raise("TypeError", "Otvet ne soderzhit spisok domashnikh rabot")
         ELSE Ok(IF response.homeworks = <<>> THEN <<>> ELSE <<response.homeworks[1]>>)
    ELSE Raise("TypeError", "V otvete API ne obnaruzhen slovar")

\* lines 83-98
check_response(response) ==
    IF response.is_dict
    THEN IF ~response.has_homeworks
         THEN Raise("KeyNotFound", "V otvete ne obnaruzhen klyuch " \o Repr("homeworks"))
         ELSE IF ~response.homeworks_is_list
         THEN Raise("TypeError", "Otvet ne soderzhit spisok domashnikh rabot")
         ELSE Ok(response.homeworks)
    ELSE Raise("TypeError", "V otvete API ne obnaruzhen slovar")

\* mutant: the raw status is rendered instead of the verdict
parse_status_raw_status(homework) ==
    IF "homework_name" \notin DOMAIN homework \/ "status" \notin DOMAIN homework
    THEN Raise("KeyError", "homework_name")
    ELSE IF homework["status"] \notin DOMAIN HOMEWORK_VERDICTS
    THEN Raise("UnknownStatus", homework["status"])
    ELSE Ok("Izmenilsya status proverki raboty \"" \o homework["homework_name"]
            \o "\". " \o homework["status"])

\* mutant: a status the catalog does not know is rendered as it is
parse_status_unknown_as_is(homework) ==
    IF "homework_name" \notin DOMAIN homework \/ "status" \notin DOMAIN homework
    THEN LET key == IF "homework_name" \notin DOMAIN homework
                    THEN "homework_name" ELSE "status"
         IN Raise("KeyError",
                  ReprQuoted("Klyuch " \o Repr(key)
                             \o " ne naiden v informatsii o domashnei rabote"))
    ELSE Ok("Izmenilsya status proverki raboty \"" \o homework["homework_name"]
            \o "\". "
            \o (IF homework["status"] \in DOMAIN HOMEWORK_VERDICTS
                THEN HOMEWORK_VERDICTS[homework["status"]]
                ELSE homework["status"]))

\* lines 101-119
parse_status(homework) ==
    IF "homework_name" \notin DOMAIN homework \/ "status" \notin DOMAIN homework
    THEN LET key == IF "homework_name" \notin DOMAIN homework
                    THEN "homework_name" ELSE "status"
         IN Raise("KeyError",
                  ReprQuoted("Klyuch " \o Repr(key)
                             \o " ne naiden v informatsii o domashnei rabote"))
    ELSE IF homework["status"] \notin DOMAIN HOMEWORK_VERDICTS
    THEN Raise("UnknownStatus",
               "Neizvestnyi status domashnei raboty: " \o Repr(homework["status"]))
    ELSE Ok("Izmenilsya status proverki raboty \"" \o homework["homework_name"]
            \o "\". " \o HOMEWORK_VERDICTS[homework["status"]])

\* response.get('current_date')
get_current_date(response) ==
    IF response.has_current_date THEN Some(response.current_date) ELSE None

----------------------------------------------------------------------------
(* One pass of the 'while True' loop of main() *)

NoIteration ==
    [from_date |-> None, net |-> None, response |-> None, validated |-> FALSE, homework |-> <<>>,
     current_date |-> None, path |-> "none", error |-> None, sent |-> <<>>,
     sleeps |-> 0]

\* what later passes are compared with: how the pass ended, its error, the
\* most recent homework of a pass that ended without error, the messages sent
Summary(it) ==
    [path |-> it.path, error |-> it.error,
     head |-> IF it.error = None /\ it.homework # <<>> THEN Some(it.homework[1]) ELSE None,
     sent |-> [i \in DOMAIN it.sent |->
                  [kind |-> it.sent[i].kind, delivered |-> it.sent[i].delivered]]]

StatusMessage(text, delivered) == [kind |-> "status", text |-> text, delivered |-> delivered]
ErrorMessage(text, delivered) == [kind |-> "error", text |-> text, delivered |-> delivered]

\* str() of a TelegramError that send_message let through
TelegramErrorText == "TelegramError"

\* mutant: the list is recorded only if its notification was delivered
TryBlock_record_if_delivered(fetch, ts, lh, transport) ==
    LET base == [NoIteration EXCEPT
                     !.response = IF fetch.ok THEN Some(fetch.value) ELSE None]
        unchanged(it, exc) ==
            [timestamp |-> ts, last_homework |-> lh, raised |-> Some(exc),
             it |-> [it EXCEPT !.path = "error", !.error = Some(exc)]]
    IN  IF ~fetch.ok THEN unchanged(base, fetch.exc)
        ELSE
        LET response == fetch.value
            checked == check_response(response)
        IN  IF ~checked.ok THEN unchanged(base, checked.exc)
            ELSE
            LET homework == checked.value
                valid == [base EXCEPT !.validated = TRUE, !.homework = homework]
                done(it, new_lh) ==
                    [timestamp |-> get_current_date(response), last_homework |-> new_lh,
                     raised |-> None,
                     it |-> [it EXCEPT !.current_date = get_current_date(response),
                                       !.sleeps = 1]]
            IN  IF homework # <<>> /\ Some(homework) # lh
                THEN LET parsed == parse_status(homework[1])
                     IN  IF ~parsed.ok THEN unchanged(valid, parsed.exc)
                         ELSE
                         LET sending == send_message(parsed.value, transport)
                             handed == [valid EXCEPT !.sent =
                                 <<StatusMessage(parsed.value, sending.delivered)>>]
                         IN  IF sending.raised
                             THEN unchanged(handed,
                                            [class |-> "TelegramError",
                                             text |-> TelegramErrorText])
                             ELSE done([handed EXCEPT !.path = "changed"],
                                       IF sending.delivered THEN Some(homework) ELSE lh)
                ELSE done([valid EXCEPT !.path = "unchanged"], lh)

\* mutant: response['current_date'] instead of response.get('current_date')
TryBlock_current_date_subscript(fetch, ts, lh, transport) ==
    LET base == [NoIteration EXCEPT
                     !.response = IF fetch.ok THEN Some(fetch.value) ELSE None]
        unchanged(it, exc) ==
            [timestamp |-> ts, last_homework |-> lh, raised |-> Some(exc),
             it |-> [it EXCEPT !.path = "error", !.error = Some(exc)]]
    IN  IF ~fetch.ok THEN unchanged(base, fetch.exc)
        ELSE
        LET response == fetch.value
            checked == check_response(response)
        IN  IF ~checked.ok THEN unchanged(base, checked.exc)
            ELSE
            LET homework == checked.value
                valid == [base EXCEPT !.validated = TRUE, !.homework = homework]
                missing == [class |-> "KeyError", text |-> Repr("current_date")]
                done(it, new_lh) ==
                    IF response.has_current_date
                    THEN [timestamp |-> get_current_date(response),
                          last_homework |-> new_lh, raised |-> None,
                          it |-> [it EXCEPT !.current_date = get_current_date(response),
                                            !.sleeps = 1]]
                    ELSE [timestamp |-> ts, last_homework |-> new_lh,
                          raised |-> Some(missing),
                          it |-> [it EXCEPT !.path = "error", !.error = Some(missing)]]
            IN  IF homework # <<>> /\ Some(homework) # lh
                THEN LET parsed == parse_status(homework[1])
                     IN  IF ~parsed.ok THEN unchanged(valid, parsed.exc)
                         ELSE
                         LET sending == send_message(parsed.value, transport)
                             handed == [valid EXCEPT !.sent =
                                 <<StatusMessage(parsed.value, sending.delivered)>>]
                         IN  IF sending.raised
                             THEN unchanged(handed,
                                            [class |-> "TelegramError",
                                             text |-> TelegramErrorText])
                             ELSE done([handed EXCEPT !.path = "changed"], Some(homework))
                ELSE done([valid EXCEPT !.path = "unchanged"], lh)

\* mutant: the timestamp is taken from the response only when the list changed
TryBlock_timestamp_on_change_only(fetch, ts, lh, transport) ==
    LET base == [NoIteration EXCEPT
                     !.response = IF fetch.ok THEN Some(fetch.value) ELSE None]
        unchanged(it, exc) ==
            [timestamp |-> ts, last_homework |-> lh, raised |-> Some(exc),
             it |-> [it EXCEPT !.path = "error", !.error = Some(exc)]]
    IN  IF ~fetch.ok THEN unchanged(base, fetch.exc)
        ELSE
        LET response == fetch.value
            checked == check_response(response)
        IN  IF ~checked.ok THEN unchanged(base, checked.exc)
            ELSE
            LET homework == checked.value
                valid == [base EXCEPT !.validated = TRUE, !.homework = homework]
                done(it, new_lh) ==
                    [timestamp |-> get_current_date(response), last_homework |-> new_lh,
                     raised |-> None,
                     it |-> [it EXCEPT !.current_date = get_current_date(response),
                                       !.sleeps = 1]]
            IN  IF homework # <<>> /\ Some(homework) # lh
                THEN LET parsed == parse_status(homework[1])
                     IN  IF ~parsed.ok THEN unchanged(valid, parsed.exc)
                         ELSE
                         LET sending == send_message(parsed.value, transport)
                             handed == [valid EXCEPT !.sent =
                                 <<StatusMessage(parsed.value, sending.delivered)>>]
                         IN  IF sending.raised
                             THEN unchanged(handed,
                                            [class |-> "TelegramError",
                                             text |-> TelegramErrorText])
                             ELSE done([handed EXCEPT !.path = "changed"], Some(homework))
                ELSE [done([valid EXCEPT !.path = "unchanged"], lh) EXCEPT !.timestamp = ts]

\* lines 153-162: the try block, given what get_api_answer did.  The result
\* holds the locals as the block leaves them, and the exception if it raised.
TryBlock(fetch, ts, lh, transport) ==
    LET base == [NoIteration EXCEPT
                     !.response = IF fetch.ok THEN Some(fetch.value) ELSE None]
        unchanged(it, exc) ==
            [timestamp |-> ts, last_homework |-> lh, raised |-> Some(exc),
             it |-> [it EXCEPT !.path = "error", !.error = Some(exc)]]
    IN  IF ~fetch.ok THEN unchanged(base, fetch.exc)
        ELSE
        LET response == fetch.value
            checked == check_response(response)
        IN  IF ~checked.ok THEN unchanged(base, checked.exc)
            ELSE
            LET homework == checked.value
                valid == [base EXCEPT !.validated = TRUE, !.homework = homework]
                done(it, new_lh) ==
                    [timestamp |-> get_current_date(response), last_homework |-> new_lh,
                     raised |-> None,
                     it |-> [it EXCEPT !.current_date = get_current_date(response),
                                       !.sleeps = 1]]
            IN  IF homework # <<>> /\ Some(homework) # lh
                THEN LET parsed == parse_status(homework[1])
                     IN  IF ~parsed.ok THEN unchanged(valid, parsed.exc)
                         ELSE
                         LET sending == send_message(parsed.value, transport)
                             handed == [valid EXCEPT !.sent =
                                 <<StatusMessage(parsed.value, sending.delivered)>>]
                         IN  IF sending.raised
                             THEN unchanged(handed,
                                            [class |-> "TelegramError",
                                             text |-> TelegramErrorText])
                             ELSE done([handed EXCEPT !.path = "changed"], Some(homework))
                ELSE done([valid EXCEPT !.path = "unchanged"], lh)

\* mutant: the errors are told apart by their class instead of their text
ExceptBlock_dedup_by_class(error, le, it, transport) ==
    IF Some(error.class) # le
    THEN LET message == "Sboi v rabote programmy: " \o error.text
             sending == send_message(message, transport)
         IN  [last_error |-> Some(error.class), crashed |-> None,
              it |-> [it EXCEPT !.sleeps = it.sleeps + 1,
                                !.sent = Append(it.sent,
                                    ErrorMessage(message, sending.delivered))]]
    ELSE [last_error |-> le, crashed |-> None,
          it |-> [it EXCEPT !.sleeps = it.sleeps + 1]]

\* mutant: the branch of a repeated error does not sleep
ExceptBlock_no_sleep_on_repeat(error, le, it, transport) ==
    IF Some(error.text) # le
    THEN LET message == "Sboi v rabote programmy: " \o error.text
             sending == send_message(message, transport)
         IN  [last_error |-> Some(error.text), crashed |-> None,
              it |-> [it EXCEPT !.sleeps = it.sleeps + 1,
                                !.sent = Append(it.sent,
                                    ErrorMessage(message, sending.delivered))]]
    ELSE [last_error |-> le, crashed |-> None, it |-> it]

\* lines 164-171: the except handler
ExceptBlock(error, le, it, transport) ==
    IF Some(error.text) # le
    THEN LET message == "Sboi v rabote programmy: " \o error.text
             sending == send_message(message, transport)
             handed == [it EXCEPT !.sent =
                 Append(it.sent, ErrorMessage(message, sending.delivered))]
         IN  IF sending.raised
             THEN [last_error |-> le, crashed |-> Some("TelegramError"), it |-> handed]
             ELSE [last_error |-> Some(error.text), crashed |-> None,
                   it |-> [handed EXCEPT !.sleeps = it.sleeps + 1]]
    ELSE [last_error |-> le, crashed |-> None,
          it |-> [it EXCEPT !.sleeps = it.sleeps + 1]]

\* mutant: the handler forgets the last homework
LoopBody_error_forgets(fetch, ts, lh, le, transport) ==
    LET try == TryBlock(fetch, ts, lh, transport)
    IN  IF try.raised = None
        THEN [timestamp |-> try.timestamp, last_homework |-> try.last_homework,
              last_error |-> le, crashed |-> None, it |-> try.it]
        ELSE LET handled == ExceptBlock(try.raised[1], le, try.it, transport)
             IN  [timestamp |-> try.timestamp, last_homework |-> None,
                  last_error |-> handled.last_error, crashed |-> handled.crashed,
                  it |-> handled.it]

\* mutant: the handler catches the exceptions of exceptions.py only
LoopBody_narrow_except(fetch, ts, lh, le, transport) ==
    LET try == TryBlock(fetch, ts, lh, transport)
    IN  IF try.raised = None
        THEN [timestamp |-> try.timestamp, last_homework |-> try.last_homework,
              last_error |-> le, crashed |-> None, it |-> try.it]
        ELSE IF try.raised[1].class \notin {"ServerError", "KeyNotFound", "UnknownStatus"}
        THEN [timestamp |-> try.timestamp, last_homework |-> try.last_homework,
              last_error |-> le, crashed |-> Some(try.raised[1].class), it |-> try.it]
        ELSE LET handled == ExceptBlock(try.raised[1], le, try.it, transport)
             IN  [timestamp |-> try.timestamp, last_homework |-> try.last_homework,
                  last_error |-> handled.last_error, crashed |-> handled.crashed,
                  it |-> handled.it]

\* lines 152-171: the try block and, if it raised, the handler
LoopBody(fetch, ts, lh, le, transport) ==
    LET try == TryBlock(fetch, ts, lh, transport)
    IN  IF try.raised = None
        THEN [timestamp |-> try.timestamp, last_homework |-> try.last_homework,
              last_error |-> le, crashed |-> None, it |-> try.it]
        ELSE LET handled == ExceptBlock(try.raised[1], le, try.it, transport)
             IN  [timestamp |-> try.timestamp, last_homework |-> try.last_homework,
                  last_error |-> handled.last_error, crashed |-> handled.crashed,
                  it |-> handled.it]

\* what requests.get did in a pass, without the document
NetSummary(net) ==
    [raises |-> net.raises, status_code |-> net.status_code, is_json |-> net.is_json]

\* the loop's state after a pass that did `body`; net is what requests.get
\* did in it, None if it was not called
Completes(body, from_date, net) ==
    /\ timestamp' = body.timestamp
    /\ last_homework' = body.last_homework
    /\ last_error' = body.last_error
    /\ cur' = [body.it EXCEPT !.from_date = from_date, !.net = net]
    /\ prev' = last
    /\ last' = Summary(body.it)
    /\ IF body.crashed # None
       THEN pc' = "failed" /\ fatal' = body.crashed
       ELSE /\ pc' = IF body.it.sleeps > 0 THEN "sleep" ELSE "poll"
            /\ fatal' = fatal

----------------------------------------------------------------------------
(* Actions *)

Init ==
    /\ env \in SUBSET TokenNames
    /\ pc = "start"
    /\ fatal = None
    /\ timestamp = None
    /\ last_homework = None
    /\ last_error = None
    /\ request = None
    /\ outstanding = 0
    /\ cur = NoIteration
    /\ prev = Summary(NoIteration)
    /\ last = Summary(NoIteration)

\* lines 135-138: a token is missing
StartMissingVariable ==
    /\ pc = "start"
    /\ ~check_tokens(env)
    /\ pc' = "failed"
    /\ fatal' = Some("MissingVariable")
    /\ UNCHANGED <<env, timestamp, last_homework, last_error, request, outstanding, cur, prev, last>>

\* lines 140-145: telegram.Bot rejects the token
StartInvalidToken ==
    /\ pc = "start"
    /\ check_tokens(env)
    /\ pc' = "failed"
    /\ fatal' = Some("InvalidToken")
    /\ UNCHANGED <<env, timestamp, last_homework, last_error, request, outstanding, cur, prev, last>>

\* lines 135-149: the loop is entered
StartLoop ==
    /\ pc = "start"
    /\ check_tokens(env)
    /\ pc' = "poll"
    /\ timestamp' = Some(StartTime)
    /\ last_homework' = None
    /\ last_error' = None
    /\ UNCHANGED <<env, fatal, request, outstanding, cur, prev, last>>

\* line 153, lines 62-67: timestamp - RETRY_PERIOD is computed and the GET is issued
IssueRequest ==
    /\ pc = "poll"
    /\ timestamp # None
    /\ request' = Some(timestamp[1] - RETRY_PERIOD)
    /\ outstanding' = outstanding + 1
    /\ pc' = "waiting"
    /\ UNCHANGED <<env, fatal, timestamp, last_homework, last_error, cur, prev, last>>

\* line 153 with timestamp = None: the subtraction raises TypeError, no GET is
\* issued and the pass ends in the handler
SubtractionFails ==
    /\ pc = "poll"
    /\ timestamp = None
    /\ \E transport \in TransportOutcomes :
          Completes(LoopBody(Raise("TypeError", NoneMinusText), timestamp,
                             last_homework, last_error, transport), None, None)
    /\ UNCHANGED <<env, request, outstanding>>

\* lines 67-80 and 154-171: requests.get returns or raises, and the pass is
\* carried to its sleep
HandleResponse ==
    /\ pc = "waiting"
    /\ \E net \in NetOutcomes, transport \in TransportOutcomes :
          Completes(LoopBody(get_api_answer(net), timestamp, last_homework,
                             last_error, transport), request, Some(NetSummary(net)))
    /\ request' = None
    /\ outstanding' = outstanding - 1
    /\ UNCHANGED env

\* lines 162, 169, 171: time.sleep(RETRY_PERIOD) returns
Sleep ==
    /\ pc = "sleep"
    /\ pc' = "poll"
    /\ cur' = NoIteration
    /\ prev' = Summary(NoIteration)
    /\ UNCHANGED <<env, fatal, timestamp, last_homework, last_error, request, outstanding, last>>

\* lines 174-178: KeyboardInterrupt leaves main() and the process exits
Interrupt ==
    /\ pc \in {"poll", "waiting", "sleep"}
    /\ pc' = "exited"
    /\ request' = None
    /\ outstanding' = 0
    /\ UNCHANGED <<env, fatal, timestamp, last_homework, last_error, cur, prev, last>>

Next ==
    \/ StartMissingVariable
    \/ StartInvalidToken
    \/ StartLoop
    \/ IssueRequest
    \/ SubtractionFails
    \/ HandleResponse
    \/ Sleep
    \/ Interrupt

Spec == Init /\ [][Next]_vars

\* the steps in which the process runs the loop, as opposed to an interrupt
LoopStep == IssueRequest \/ SubtractionFails \/ HandleResponse \/ Sleep

----------------------------------------------------------------------------
(* Vocabulary of the properties *)

InLoop == {"poll", "waiting", "sleep"}

\* a step that ends a pass of the loop: cur' describes the pass, last the one before
PassEnds ==
    \/ pc = "waiting" /\ pc' \in {"sleep", "poll", "failed"}
    \/ pc = "poll" /\ pc' \in {"sleep", "failed"}

\* number of messages of a kind among those handed to bot.send_message
Count(sent, kind) == Cardinality({i \in DOMAIN sent : sent[i].kind = kind})

Undelivered(sent, kind) ==
    \E i \in DOMAIN sent : sent[i].kind = kind /\ ~sent[i].delivered

HasKeys(h) == {"homework_name", "status"} \subseteq DOMAIN h

SameNameAndStatus(a, b) ==
    /\ HasKeys(a) /\ HasKeys(b)
    /\ a["homework_name"] = b["homework_name"]
    /\ a["status"] = b["status"]

HasCatalogStatus(h) == "status" \in DOMAIN h /\ h["status"] \in DOMAIN HOMEWORK_VERDICTS

\* the text the notification of homework h is to carry
RenderedFrom(h) ==
    "Izmenilsya status proverki raboty \"" \o h["homework_name"] \o "\". "
    \o (CASE h["status"] = "approved" -> "Rabota proverena: revyueru vsyo ponravilos. Ura!"
          [] h["status"] = "reviewing" -> "Rabota vzyata na proverku revyuerom."
          [] h["status"] = "rejected" -> "Rabota proverena: u revyuera est zamechaniya.")

ErrorText(it) == it.error[1].text

\* the answer of the API, if any, is a dict with a list under 'homeworks'
IsHomeworksList(response) ==
    /\ response # None
    /\ response[1].is_dict
    /\ response[1].has_homeworks
    /\ response[1].homeworks_is_list

----------------------------------------------------------------------------
(* C1 *)

\* C1: when two consecutive passes both end without error and their most
\* recent homework (element 0) has the same name and the same status, the
\* second pass sends no status notification, whatever the other fields of
\* the record and the other elements of the list are.
C1_SameStatusNotifiedOnce ==
    [][(/\ PassEnds
        /\ last.head # None
        /\ cur'.error = None
        /\ cur'.homework # <<>>
        /\ SameNameAndStatus(last.head[1], cur'.homework[1]))
       => Count(cur'.sent, "status") = 0]_vars

----------------------------------------------------------------------------
(* C2 *)

\* the case of C2: fetch and validation succeed, the list is not empty and
\* the status of element 0 is a catalog status that differs from the status
\* of the last notified item, if there is one
C2_Case ==
    /\ PassEnds
    /\ cur'.response # None /\ cur'.validated
    /\ cur'.homework # <<>>
    /\ HasCatalogStatus(cur'.homework[1])
    /\ \/ last_homework = None
       \/ last_homework[1][1]["status"] # cur'.homework[1]["status"]

\* exactly one status notification, rendered from element 0, is handed to
\* send_message in the pass, which then sleeps
C2_Notified ==
    /\ Len(cur'.sent) = 1
    /\ cur'.sent[1].kind = "status"
    /\ "homework_name" \in DOMAIN cur'.homework[1]
    /\ cur'.sent[1].text = RenderedFrom(cur'.homework[1])
    /\ pc' = "sleep"

\* C2 as stated: in every pass in which fetch and validation succeed, the
\* list is not empty and the status of element 0 is a catalog status that
\* differs from the last notified one, exactly one status notification
\* rendered from element 0 is sent before the sleep.
C2_Original == [][C2_Case => C2_Notified]_vars

\* C2 as amended: the same, provided element 0 also has a 'homework_name';
\* without it parse_status raises KeyError and the pass takes the error path.
C2_ChangedStatusNotified ==
    [][(C2_Case /\ "homework_name" \in DOMAIN cur'.homework[1]) => C2_Notified]_vars

\* a pass notified "rejected" for hw1 after a pass that saw it "approved"
C2_Witness ==
    /\ pc = "sleep"
    /\ prev.head # None
    /\ prev.head[1]["status"] = "approved"
    /\ cur.homework # <<>>
    /\ cur.homework[1] = Homework("hw1", "rejected", "d1")
    /\ cur.sent = <<StatusMessage(RenderedFrom(cur.homework[1]), TRUE)>>

----------------------------------------------------------------------------
(* C3 *)

\* C3: in a run of consecutive passes that all fail with the same error
\* text, the first pass of the run sends exactly one error notification and
\* the later passes of the run send nothing.
C3_OneNotificationPerRun ==
    [][(PassEnds /\ cur'.path = "error")
       => IF last.path = "error" /\ ErrorText(last) = ErrorText(cur')
          THEN cur'.sent = <<>>
          ELSE Count(cur'.sent, "error") = 1 /\ Count(cur'.sent, "status") = 0]_vars

----------------------------------------------------------------------------
(* C4 *)

\* C4: a pass that detects a changed item and sends its status notification
\* resets last_error to empty, so that a failure following it sends an error
\* notification even if its text is that of the failure before the change.
C4_ChangeResetsLastError ==
    [][/\ (PassEnds /\ cur'.path = "changed") => last_error' = None
       /\ (PassEnds /\ last.path = "changed" /\ cur'.path = "error")
              => Count(cur'.sent, "error") = 1]_vars

----------------------------------------------------------------------------
(* C5 *)

\* C5: a pass that receives a dict whose 'homeworks' is the empty list sends
\* no notification of either kind, raises no error and leaves last_homework
\* and last_error as they were, whatever they were.
C5_EmptyListIsNoUpdate ==
    [][(/\ PassEnds
        /\ IsHomeworksList(cur'.response)
        /\ cur'.response[1].homeworks = <<>>)
       => /\ cur'.validated
          /\ cur'.sent = <<>>
          /\ cur'.error = None
          /\ last_homework' = last_homework
          /\ last_error' = last_error
          /\ pc' = "sleep"]_vars

\* an empty list arrived when a homework and an error had been recorded
C5_Witness ==
    /\ pc = "sleep"
    /\ IsHomeworksList(cur.response)
    /\ cur.response[1].homeworks = <<>>
    /\ cur.response[1].has_current_date
    /\ cur.path = "unchanged"
    /\ last_homework # None
    /\ last_error # None

----------------------------------------------------------------------------
(* C6 *)

\* C6 as stated: of any two consecutive passes that fail with different
\* error texts, each sends exactly one error notification.
C6_Original ==
    [][(/\ PassEnds
        /\ last.path = "error" /\ cur'.path = "error"
        /\ ErrorText(last) # ErrorText(cur'))
       => Count(last.sent, "error") = 1 /\ Count(cur'.sent, "error") = 1]_vars

\* C6 as amended: a failing pass sends exactly one error notification if
\* str(error) differs from last_error (None at startup, which differs from
\* every text, the empty text of ServerError included) and none if it is
\* equal; so of two consecutive passes failing with different texts the
\* second always sends exactly one, and the first does unless it repeats
\* the text of the failure before it.
C6_DistinctErrorsNotified ==
    [][(PassEnds /\ cur'.path = "error")
       => /\ Count(cur'.sent, "status") = 0
          /\ Count(cur'.sent, "error")
                 = IF Some(ErrorText(cur')) = last_error THEN 0 ELSE 1
          /\ last_error' = Some(ErrorText(cur'))
          /\ ((last.path = "error" /\ ErrorText(last) # ErrorText(cur'))
                 => Count(cur'.sent, "error") = 1)]_vars

\* a ServerError, the first error after startup, then a missing 'homeworks'
\* key: both were notified
C6_Witness ==
    /\ pc = "sleep"
    /\ prev.path = "error"
    /\ prev.error[1] = [class |-> "ServerError", text |-> ""]
    /\ Count(prev.sent, "error") = 1
    /\ cur.path = "error"
    /\ cur.error[1].class = "KeyNotFound"
    /\ Count(cur.sent, "error") = 1
    /\ last_homework = None

----------------------------------------------------------------------------
(* C7 *)

\* a step of the loop leads to the loop or to the exit on an interrupt, and
\* a pass that ends leads to the sleep
C7_StaysInLoop ==
    /\ pc' \in InLoop \cup {"exited"}
    /\ fatal' = None
    /\ PassEnds => pc' = "sleep"

\* C7: once the loop is entered no error ends the process: every pass,
\* whatever its outcome, ends in the sleep with no exception leaving main(),
\* the loop is left only by an interrupt, and in every state of the loop a
\* further step of the loop is possible.
C7_LoopNeverTerminates ==
    [][(pc \in InLoop) => C7_StaysInLoop]_vars /\ [](pc \in InLoop => ENABLED LoopStep)

\* a new request is in flight after a pass whose parse_status raised
C7_Witness ==
    /\ pc = "waiting"
    /\ last.path = "error"
    /\ last.error[1].class \in {"KeyError", "UnknownStatus"}

----------------------------------------------------------------------------
(* C8 *)

----------------------------------------------------------------------------
(* C9 *)

\* C9: after a pass that ended without error on a response without
\* 'current_date', the next pass still issues a fetch with an integer
\* from_date.
C9_FallsBackToLocalClock ==
    [][(/\ PassEnds
        /\ last.path \in {"changed", "unchanged"}
        /\ timestamp = None)
       => cur'.from_date # None]_vars

----------------------------------------------------------------------------
(* C10 *)

\* a pass ends with one sleep, a pass begins after a sleep or at startup,
\* and a request is issued by a pass that has none outstanding
C10_Step ==
    /\ PassEnds => (cur'.sleeps = 1 /\ pc' = "sleep")
    /\ (pc' = "poll" /\ pc # "poll") => pc \in {"start", "sleep"}
    /\ (pc' = "waiting" /\ pc # "waiting")
           => (pc = "poll" /\ outstanding = 0 /\ outstanding' = 1)

\* C10: every pass of the loop ends with exactly one sleep, on the success
\* path and on both error paths; a request is issued only after the sleep of
\* the pass before it (or at startup), and never while another is
\* outstanding.
C10_OneSleepPerPass ==
    [][C10_Step]_vars /\ [](outstanding <= 1 /\ (outstanding = 1 <=> pc = "waiting"))

\* a pass that repeated the error of the pass before it, sent nothing and
\* sleeps
C10_Witness ==
    /\ pc = "sleep"
    /\ prev.path = "error" /\ Count(prev.sent, "error") = 1
    /\ cur.path = "error" /\ cur.sent = <<>>
    /\ cur.sleeps = 1

----------------------------------------------------------------------------
(* C11 *)

\* what made requests.get or the decoding of its answer fail, if anything
Cause(net) ==
    IF net.raises # "" THEN "transport"
    ELSE IF net.status_code # HTTP_OK THEN "status"
    ELSE IF ~net.is_json THEN "body"
    ELSE "none"

\* the pass that ends called requests.get
C11_Fetched == PassEnds /\ cur'.net # None

\* get_api_answer returned a document in the pass that ends
C11_Returned == cur'.response # None

\* the class of the error of get_api_answer is raised for no other cause
C11_ClassNamesCause ==
    \A other \in NetOutcomes :
        LET answer == get_api_answer(other)
        IN  (~answer.ok /\ answer.exc.class = cur'.error[1].class)
                => Cause(other) = Cause(cur'.net[1])

\* C11: get_api_answer returns a document only when the network call
\* succeeds with status 200 and a JSON body; otherwise it fails, with
\* ServerError when the status is not 200, and with a class that tells
\* transport errors, ServerError and undecodable bodies apart; one call makes
\* one request.
C11_FetchErrorsDistinguishable ==
    [][C11_Fetched
       => /\ C11_Returned <=> Cause(cur'.net[1]) = "none"
          /\ outstanding = 1 /\ outstanding' = 0
          /\ ~C11_Returned
                => /\ cur'.path = "error"
                   /\ Cause(cur'.net[1]) = "status" <=> cur'.error[1].class = "ServerError"
                   /\ C11_ClassNamesCause]_vars

----------------------------------------------------------------------------
(* C12 *)

\* with a variable missing main() is at its start or has ended with
\* MissingVariable, and has neither fetched nor sent anything
C12_RefusesToStart ==
    (~(TokenNames \subseteq env))
        => /\ pc \in {"start", "failed"}
           /\ pc = "failed" => fatal = Some("MissingVariable")
           /\ request = None /\ outstanding = 0
           /\ cur = NoIteration /\ last = Summary(NoIteration)

\* C12 as stated: with a variable missing main() ends with MissingVariable
\* before the loop, having fetched and sent nothing; with all three present
\* the loop is entered.
C12_Original ==
    /\ C12_RefusesToStart
    /\ (TokenNames \subseteq env /\ pc # "start") => pc \in InLoop \cup {"exited"}

\* C12 as amended: with all three present main() does not end with
\* MissingVariable, and it enters the loop unless telegram.Bot rejects the
\* token, in which case it ends with InvalidToken before the loop.
C12_TokensDecideStart ==
    /\ C12_RefusesToStart
    /\ (TokenNames \subseteq env /\ pc # "start")
           => \/ pc \in InLoop \cup {"exited"}
              \/ /\ pc = "failed" /\ fatal = Some("InvalidToken")
                 /\ request = None /\ cur = NoIteration /\ last = Summary(NoIteration)

\* main() has ended with MissingVariable for want of TELEGRAM_CHAT_ID alone
C12_Witness ==
    /\ env = {"PRACTICUM_TOKEN", "TELEGRAM_TOKEN"}
    /\ pc = "failed"
    /\ fatal = Some("MissingVariable")

----------------------------------------------------------------------------
(* C13 *)

\* the pass that ends validated a list whose element 0 is h; parse_status is
\* called for it, because no list recorded in last_homework starts with a
\* record that parse_status rejects
C13_Parsed(h) ==
    /\ PassEnds
    /\ cur'.validated
    /\ cur'.homework # <<>>
    /\ cur'.homework[1] = h

\* the pass took the error path with an error of the class, whose text
\* holds `inner` between the two given parts, and sent no status notification
C13_Rejected(class, before, inner, after) ==
    /\ cur'.path = "error"
    /\ cur'.error[1].class = class
    /\ cur'.error[1].text = before \o inner \o after
    /\ Count(cur'.sent, "status") = 0
    /\ last_homework' = last_homework

C13_MissingKey(h) ==
    IF "homework_name" \notin DOMAIN h THEN "homework_name" ELSE "status"

\* what C13 says of a pass whose element 0 is h
C13_Step(h) ==
    /\ (HasKeys(h) /\ ~HasCatalogStatus(h))
           => C13_Rejected("UnknownStatus", "Neizvestnyi status domashnei raboty: '",
                           h["status"], "'")
    /\ (~HasKeys(h))
           => C13_Rejected("KeyError", "\"Klyuch '", C13_MissingKey(h),
                           "' ne naiden v informatsii o domashnei rabote\"")

\* C13: for a record with both keys whose status is not in the catalog
\* parse_status raises UnknownStatus with the raw status in its message and
\* returns no message; for a record without 'homework_name' or 'status' it
\* raises a missing-field error (KeyError); in main() such a pass sends no
\* status notification and takes the error path.
C13_BadRecordsRejected ==
    [][\A h \in Homeworks : C13_Parsed(h) => C13_Step(h)]_vars

\* after a pass that failed on a record without 'status', a pass has failed
\* on a record with the unknown status 'resubmitted'
C13_Witness ==
    /\ pc = "sleep"
    /\ prev.path = "error" /\ prev.error[1].class = "KeyError"
    /\ cur.validated /\ cur.homework # <<>>
    /\ HasKeys(cur.homework[1])
    /\ cur.homework[1]["status"] = "resubmitted"
    /\ cur.error # None /\ cur.error[1].class = "UnknownStatus"
    /\ Count(cur.sent, "error") = 1

----------------------------------------------------------------------------
(* C14 *)

\* what C14 says of a pass in which get_api_answer returned a document
C14_Step ==
    /\ cur'.validated <=> IsHomeworksList(cur'.response)
    /\ cur'.validated => cur'.homework = cur'.response[1].homeworks
    /\ (~cur'.validated)
           => /\ cur'.path = "error"
              /\ cur'.error[1].class
                     = (IF cur'.response[1].is_dict /\ ~cur'.response[1].has_homeworks
                        THEN "KeyNotFound" ELSE "TypeError")
              /\ Count(cur'.sent, "status") = 0
              /\ last_homework' = last_homework

\* C14: check_response returns the list under 'homeworks', unchanged and in
\* its order, exactly when the response is a dict with a list (empty or not)
\* under 'homeworks'; it fails when the response is not a dict, when the key
\* is absent and when its value is not a list, and then the pass sends no
\* status notification.
C14_ValidatesShape ==
    [][(PassEnds /\ cur'.response # None) => C14_Step]_vars

\* the pass before failed for want of the key 'homeworks', and this pass
\* validated and notified a list of two homeworks
C14_Witness ==
    /\ pc = "sleep"
    /\ prev.path = "error" /\ prev.error[1].class = "KeyNotFound"
    /\ cur.validated
    /\ Len(cur.homework) = 2
    /\ cur.homework = cur.response[1].homeworks
    /\ cur.homework[2] = OlderHomework
    /\ cur.path = "changed"

----------------------------------------------------------------------------
(* C15 *)

\* what C15 says of a pass that ends
C15_Step ==
    /\ Undelivered(cur'.sent, "status") => last_homework' = Some(cur'.homework)
    /\ Undelivered(cur'.sent, "error") => last_error' = Some(ErrorText(cur'))
    /\ (/\ Undelivered(last.sent, "status")
        /\ cur'.validated
        /\ Some(cur'.homework) = last_homework)
           => cur'.sent = <<>> /\ cur'.path = "unchanged"
    /\ (/\ Undelivered(last.sent, "error")
        /\ cur'.path = "error"
        /\ ErrorText(cur') = ErrorText(last))
           => cur'.sent = <<>>

----------------------------------------------------------------------------
(* C16 *)

\* what C16 says of a pass that ends
C16_Step ==
    /\ cur'.path = "error"
           => /\ last_homework' = last_homework
              /\ timestamp' = timestamp
    /\ (cur'.path = "error" /\ cur'.from_date # None)
           => /\ timestamp' # None
              /\ Some(timestamp'[1] - RETRY_PERIOD) = cur'.from_date
    /\ (/\ last.path = "error"
        /\ cur'.validated /\ cur'.homework # <<>>
        /\ Some(cur'.homework) = last_homework)
           => cur'.sent = <<>>

\* C16: a pass that takes the error path leaves last_homework and timestamp
\* as they were, so that a list notified before the failure is not notified
\* again after it, and the fetch after the failed pass has the from_date of
\* the failed one.
C16_ErrorPathKeepsState ==
    [][PassEnds => C16_Step]_vars

\* after a failed pass, a pass got the list recorded before the failure and
\* sent nothing
C16_Witness ==
    /\ pc = "sleep"
    /\ prev.path = "error"
    /\ cur.path = "unchanged"
    /\ cur.homework # <<>>
    /\ Some(cur.homework) = last_homework
    /\ cur.sent = <<>>

----------------------------------------------------------------------------
(* C17 *)

----------------------------------------------------------------------------
(* C18 *)

\* the 'current_date' of the document of the pass that ends, None if it has none
C18_Echoed ==
    IF cur'.response[1].has_current_date
    THEN Some(cur'.response[1].current_date)
    ELSE None

\* T is timestamp: it is the local start time when the loop is entered, the
\* request of a pass is issued with T - RETRY_PERIOD, T becomes the
\* 'current_date' of the response at the end of a pass without error,
\* notified or not, and no other step changes it
C18_Step ==
    /\ (pc = "start" /\ pc' = "poll") => timestamp' = Some(StartTime)
    /\ (pc = "poll" /\ pc' = "waiting")
           => request' = Some(timestamp[1] - RETRY_PERIOD)
    /\ (PassEnds /\ cur'.net # None)
           => cur'.from_date = request /\ request = Some(timestamp[1] - RETRY_PERIOD)
    /\ (PassEnds /\ cur'.path \in {"changed", "unchanged"}) => timestamp' = C18_Echoed
    /\ (PassEnds /\ cur'.path = "error") => timestamp' = timestamp
    /\ (~PassEnds /\ pc # "start") => timestamp' = timestamp

\* C18: every fetch uses from_date = T - RETRY_PERIOD, T being the
\* 'current_date' of the most recent pass that ended without error, or the
\* local start time if there is none yet; T changes only at the end of a
\* pass without error, whether or not the pass sent a notification.
C18_FromDateFollowsCurrentDate ==
    [][C18_Step]_vars

\* a request is in flight after a failed pass, with the from_date of the
\* 'current_date' echoed before the failure
C18_Witness ==
    /\ pc = "waiting"
    /\ last.path = "error"
    /\ timestamp # None
    /\ timestamp[1] \in CurrentDates
    /\ request = Some(timestamp[1] - RETRY_PERIOD)

====
